---- MODULE Spec2Model ----
(***************************************************************************)
(* A model of the class-usage reporting pipeline.                          *)
(*                                                                         *)
(*   src/report.py  ClassUsageReporter: the aggregator.  It loads three    *)
(*                  tables, computes three analyses, writes                *)
(*                  comprehensive_report.json and then draws one chart.    *)
(*   src/graph.py   the renderer.  It loads the aggregate document and     *)
(*                  runs eight output steps inside one try/except.         *)
(*                                                                         *)
(* Tables are sequences of records (row order is the file's row order).    *)
(* Instructor identifiers are the values astype(str) leaves: numerals of   *)
(* equal width, so that their string order is the order of the integers    *)
(* used here.  Numbers that can be NaN or infinite are records             *)
(* [kind, num, den]: an exact fraction, "nan", "inf", or the exception a   *)
(* Python int division raises.                                             *)
(***************************************************************************)
EXTENDS Integers, Sequences, FiniteSets, TLC

VARIABLES
    past_classes,    \* self.past_classes: the session table
    missed_classes,  \* self.missed_classes: the missed-session table
    teachers,        \* self.teachers: the roster, one employee_id per row
    pc,              \* position in generate_comprehensive_report
    report,          \* comprehensive_report, once the analyses have run
    reports_dir,     \* files in output_dir ('reports'); NoDir while absent
    variant,         \* which aggregator wrote the document the renderer loads
    rpc,             \* position in graph.py: "idle", a step number, "done"
    graphs,          \* files in OUTPUT_DIR ('graphs')
    ran,             \* the output steps generate_all_plots has called, in order
    printed,         \* the messages generate_all_plots has printed
    tables           \* the rows generate_teacher_table / generate_final_report built

vars == <<past_classes, missed_classes, teachers, pc, report, reports_dir,
          variant, rpc, graphs, ran, printed, tables>>

---------------------------------------------------------------------------
(* Bounds of the model.                                                    *)

\* rows of the session table plus rows of the missed-session table
MaxRows == 2
\* rows of the roster
MaxTeachers == 2
\* missed sessions of the single instructor of the one-instructor inputs
MaxMissed == 3
\* roster size of the wide inputs (more instructors than the top list keeps)
WideTeachers == 11

CourseCodes == <<"CSE101", "CSE102">>     \* in ascending (string) order
Courses == {CourseCodes[i] : i \in 1..Len(CourseCodes)}
EmployeeIds == {101, 102}
EntryTypes == {"on_time", "late", "EXTRA_CLASS"}
Durations == {60}                         \* end_time - start_time, minutes

---------------------------------------------------------------------------
(* Sequences.                                                              *)

SeqsUpTo(S, n) == UNION {[1..k -> S] : k \in 0..n}

RECURSIVE SumSeq(_)
SumSeq(s) == IF s = <<>> THEN 0 ELSE Head(s) + SumSeq(Tail(s))

Range(s) == {s[i] : i \in 1..Len(s)}

Take(s, n) == SubSeq(s, 1, IF Len(s) < n THEN Len(s) ELSE n)

\* pandas groupby(key): the distinct keys present, in ascending order.
\* `order` lists every possible key in ascending order.
GroupKeys(order, present) == SelectSeq(order, LAMBDA k : k \in present)

RECURSIVE IdsAscending(_)
IdsAscending(S) ==
    IF S = {} THEN <<>>
    ELSE LET m == CHOOSE x \in S : \A y \in S : x <= y
         IN  <<m>> \o IdsAscending(S \ {m})

---------------------------------------------------------------------------
(* Numbers: exact fractions, NaN, infinity.                                *)

RECURSIVE Gcd(_, _)
Gcd(a, b) == IF b = 0 THEN a ELSE Gcd(b, a % b)

Rat(n, d) == LET g == Gcd(n, d)
             IN  [kind |-> "num", num |-> n \div g, den |-> d \div g]
Num(n) == [kind |-> "num", num |-> n, den |-> 1]
NaN == [kind |-> "nan", num |-> 0, den |-> 1]
Inf == [kind |-> "inf", num |-> 0, den |-> 1]
ZeroDivisionError == [kind |-> "ZeroDivisionError", num |-> 0, den |-> 1]

IsNum(x) == x.kind = "num"

\* a / b on numpy values (pandas columns and their sums): no exception
NpDiv(a, b) == IF b = 0 THEN (IF a = 0 THEN NaN ELSE Inf) ELSE Rat(a, b)

\* a / b on Python ints
PyDiv(a, b) == IF b = 0 THEN ZeroDivisionError ELSE Rat(a, b)

Times100(x) == IF IsNum(x) THEN Rat(100 * x.num, x.den) ELSE x

RECURSIVE Pow10(_)
Pow10(k) == IF k = 0 THEN 1 ELSE 10 * Pow10(k - 1)

\* round(places) / the ".<places>f" format: nearest multiple of 10^-places,
\* halves to the even neighbour; NaN and infinity are left as they are.
RoundTo(x, places) ==
    IF ~IsNum(x) THEN x
    ELSE LET scaled == x.num * Pow10(places)
             q == scaled \div x.den
             r == scaled % x.den
             up == \/ 2 * r > x.den
                   \/ (2 * r = x.den /\ q % 2 = 1)
         IN  Rat(IF up THEN q + 1 ELSE q, Pow10(places))

\* fillna(0)
FillNa(x) == IF x.kind = "nan" THEN Num(0) ELSE x

\* a value rounded to two places, in hundredths
Hundredths(x) == x.num * (Pow10(2) \div x.den)

\* a < b for fractions
RatLess(a, b) == a.num * b.den < b.num * a.den

---------------------------------------------------------------------------
(* Sorting.                                                                *)

\* An ascending sort by column col, stable: what a sort_values call without
\* ascending=False gives.
StableSortAsc(s, col) ==
    LET n == Len(s)
        pos(i) == 1 + Cardinality({j \in 1..n :
                        \/ s[j][col] < s[i][col]
                        \/ (s[j][col] = s[i][col] /\ j < i)})
    IN  [k \in 1..n |-> s[CHOOSE i \in 1..n : pos(i) = k]]

\* DataFrame.sort_values(col, ascending=False) and the ordering nlargest
\* gives: rows by descending s[col].  pandas reverses the rows, argsorts and
\* reverses again, and numpy's default sort is an insertion sort for tables
\* of up to 16 rows, so rows with equal keys keep the order they had.  (For
\* longer tables the default quicksort promises no order among equal keys.)
StableSortDesc(s, col) ==
    LET n == Len(s)
        pos(i) == 1 + Cardinality({j \in 1..n :
                        \/ s[j][col] > s[i][col]
                        \/ (s[j][col] = s[i][col] /\ j < i)})
    IN  [k \in 1..n |-> s[CHOOSE i \in 1..n : pos(i) = k]]

\* df[df[col] == val]
SelectRows(s, col, val) == SelectSeq(s, LAMBDA r : r[col] = val)

\* len(df[df[col] == val]); for a boolean column and TRUE, df[col].sum()
CountRows(s, col, val) == Len(SelectRows(s, col, val))

\* df[col].sum()
ColumnSum(df, col) == SumSeq([i \in 1..Len(df) |-> df[i][col]])

---------------------------------------------------------------------------
(* The aggregator's analyses (src/report.py).                              *)

\* report.py:131: nlargest(10, 'missed_count')
TopN == 10

\* report.py:67-73: one row per course_code, in ascending course_code order
\* (groupby sorts its keys), with the row count and the mean duration.
course_groups(past) ==
    LET keys == GroupKeys(CourseCodes, {past[i].course_code : i \in 1..Len(past)})
        rows(c) == SelectRows(past, "course_code", c)
    IN  [k \in 1..Len(keys) |->
            [course_code  |-> keys[k],
             class_count  |-> Len(rows(keys[k])),
             avg_duration |-> RoundTo(NpDiv(ColumnSum(rows(keys[k]), "duration"),
                                            Len(rows(keys[k]))), 2)]]

\* The sort without ascending=False.
course_distribution_ascending(past) ==
    StableSortAsc(course_groups(past), "class_count")

\* report.py:77
course_distribution(past) ==
    StableSortDesc(course_groups(past), "class_count")

\* report.py:80: value_counts() has a key for each entry type that occurs
entry_type_distribution(past) ==
    [t \in {past[i].entry_type : i \in 1..Len(past)} |->
        CountRows(past, "entry_type", t)]

\* The fraction, not multiplied by 100.
late_fraction(late_classes, total_classes) ==
    IF total_classes > 0 THEN PyDiv(late_classes, total_classes) ELSE Num(0)

\* report.py:86
late_percentage(late_classes, total_classes) ==
    IF total_classes > 0 THEN Times100(PyDiv(late_classes, total_classes))
    ELSE Num(0)

\* report.py:52-89
past_classes_analysis(past) ==
    LET total_classes == Len(past)
        late_classes == CountRows(past, "entry_type", "late")
        on_time_classes == CountRows(past, "entry_type", "on_time")
    IN  [total_classes   |-> total_classes,
         late_classes    |-> late_classes,
         on_time_classes |-> on_time_classes,
         late_percentage |-> late_percentage(late_classes, total_classes),
         entry_type_distribution |-> entry_type_distribution(past),
         all_courses     |-> course_distribution(past)]

---------------------------------------------------------------------------
(* Missed sessions (report.py:91-133).                                     *)

RECURSIVE FlattenSeq(_)
FlattenSeq(ss) == IF ss = <<>> THEN <<>> ELSE Head(ss) \o FlattenSeq(Tail(ss))

\* No filter: every missed session.
all_missed_classes(missed, roster) == missed

\* report.py:100-102: the missed sessions of instructors on the roster
valid_missed_classes(missed, roster) ==
    SelectSeq(missed, LAMBDA r : r.employee_id \in Range(roster))

\* report.py:105-116: one row per employee_id of the valid missed sessions,
\* in ascending employee_id order
teacher_missed_groups(valid) ==
    LET keys == IdsAscending({valid[i].employee_id : i \in 1..Len(valid)})
        rows(e) == SelectRows(valid, "employee_id", e)
        made(e) == CountRows(rows(e), "makeup_done", TRUE)
    IN  [k \in 1..Len(keys) |->
            [employee_id |-> keys[k],
             missed_count |-> Len(rows(keys[k])),
             makeup_done |-> made(keys[k]),
             makeup_percentage |->
                 RoundTo(Times100(NpDiv(made(keys[k]), Len(rows(keys[k])))), 2)]]

\* report.py:119-122: the inner merge with the roster: for each group, in
\* order, one row per roster row with that employee_id.  first_name and
\* last_name are whatever the roster row holds; the model writes the number
\* of the roster row for them.
merge_teacher_names(groups, roster) ==
    FlattenSeq([k \in 1..Len(groups) |->
        LET idx == SelectSeq([i \in 1..Len(roster) |-> i],
                             LAMBDA i : roster[i] = groups[k].employee_id)
        IN  [j \in 1..Len(idx) |->
                [first_name |-> idx[j],
                 missed_count |-> groups[k].missed_count,
                 makeup_done |-> groups[k].makeup_done,
                 makeup_percentage |-> groups[k].makeup_percentage]]])

\* report.py:130-132
teachers_with_most_missed(merged) ==
    Take(StableSortDesc(merged, "missed_count"), TopN)

\* report.py:127-128
overall_makeup_percentage(makeup_sum, n_valid) ==
    IF n_valid > 0 THEN Times100(NpDiv(makeup_sum, n_valid)) ELSE Num(0)

\* report.py:129
missed_classes_by_course(valid) ==
    [c \in {valid[i].course_code : i \in 1..Len(valid)} |->
        CountRows(valid, "course_code", c)]

\* report.py:91-133
missed_classes_analysis(missed, roster) ==
    LET valid == valid_missed_classes(missed, roster)
        makeup_sum == CountRows(valid, "makeup_done", TRUE)
    IN  [total_missed_classes |-> Len(valid),
         makeup_classes |-> makeup_sum,
         makeup_percentage |-> overall_makeup_percentage(makeup_sum, Len(valid)),
         missed_classes_by_course |-> missed_classes_by_course(valid),
         teachers_with_most_missed |->
             teachers_with_most_missed(
                 merge_teacher_names(teacher_missed_groups(valid), roster))]

---------------------------------------------------------------------------
(* Instructor usage (report.py:135-200).                                   *)

\* report.py:148-152: per employee_id of the session table (roster or not)
past_classes_metrics(past) ==
    [e \in {past[i].employee_id : i \in 1..Len(past)} |->
        [total_classes |-> CountRows(past, "employee_id", e),
         late_classes |-> CountRows(SelectRows(past, "employee_id", e),
                                    "entry_type", "late")]]

\* 'makeup_done': 'count' in place of 'sum': every missed session counted
\* as made up.
missed_classes_metrics_count(missed) ==
    [e \in {missed[i].employee_id : i \in 1..Len(missed)} |->
        [missed_classes |-> CountRows(missed, "employee_id", e),
         makeup_classes |-> CountRows(missed, "employee_id", e)]]

\* report.py:155-159: per employee_id of the missed table (roster or not)
missed_classes_metrics(missed) ==
    [e \in {missed[i].employee_id : i \in 1..Len(missed)} |->
        [missed_classes |-> CountRows(missed, "employee_id", e),
         makeup_classes |-> CountRows(SelectRows(missed, "employee_id", e),
                                      "makeup_done", TRUE)]]

\* A merge that keeps only the roster rows that have sessions (how='inner').
merge_metrics_inner(roster, pm, mm) ==
    LET idx == SelectSeq([i \in 1..Len(roster) |-> i],
                         LAMBDA i : roster[i] \in DOMAIN pm)
    IN  [k \in 1..Len(idx) |->
            LET e == roster[idx[k]]
            IN  [employee_id |-> e,
                 first_name |-> idx[k],
                 total_classes |-> Num(pm[e].total_classes),
                 late_classes |-> Num(pm[e].late_classes),
                 missed_classes |-> IF e \in DOMAIN mm
                                    THEN Num(mm[e].missed_classes) ELSE NaN,
                 makeup_classes |-> IF e \in DOMAIN mm
                                    THEN Num(mm[e].makeup_classes) ELSE NaN]]

\* Merges that also keep the employee_ids that are in a metrics table and
\* not in the roster (how='outer'), after the roster rows.
merge_metrics_outer(roster, pm, mm) ==
    LET metric(t, e, col) == IF e \in DOMAIN t THEN Num(t[e][col]) ELSE NaN
        row(e, name) == [employee_id |-> e,
                         first_name |-> name,
                         total_classes |-> metric(pm, e, "total_classes"),
                         late_classes |-> metric(pm, e, "late_classes"),
                         missed_classes |-> metric(mm, e, "missed_classes"),
                         makeup_classes |-> metric(mm, e, "makeup_classes")]
        others == IdsAscending((DOMAIN pm \cup DOMAIN mm) \ Range(roster))
    IN  [i \in 1..Len(roster) |-> row(roster[i], i)]
            \o [k \in 1..Len(others) |-> row(others[k], 0)]

\* report.py:162-166: the two left merges from the roster: one row per
\* roster row, in roster order; a metric with no row for the employee_id is
\* NaN.
merge_metrics(roster, pm, mm) ==
    [i \in 1..Len(roster) |->
        LET e == roster[i]
        IN  [employee_id |-> e,
             first_name |-> i,
             total_classes |-> IF e \in DOMAIN pm
                               THEN Num(pm[e].total_classes) ELSE NaN,
             late_classes |-> IF e \in DOMAIN pm
                              THEN Num(pm[e].late_classes) ELSE NaN,
             missed_classes |-> IF e \in DOMAIN mm
                                THEN Num(mm[e].missed_classes) ELSE NaN,
             makeup_classes |-> IF e \in DOMAIN mm
                                THEN Num(mm[e].makeup_classes) ELSE NaN]]

\* The percentages as computed, with no second fillna.
percentages_unfilled(x) == x

\* report.py:178: the fillna(0) after the two percentage columns
fill_percentage(x) == FillNa(x)

\* report.py:169-178: fillna(0), then the two percentage columns, then
\* fillna(0) again.  The counts are whole numbers from here on.
with_percentages(rows) ==
    [i \in 1..Len(rows) |->
        LET total == FillNa(rows[i].total_classes).num
            late == FillNa(rows[i].late_classes).num
            missed == FillNa(rows[i].missed_classes).num
            makeup == FillNa(rows[i].makeup_classes).num
        IN  [employee_id |-> rows[i].employee_id,
             first_name |-> rows[i].first_name,
             total_classes |-> total,
             late_classes |-> late,
             missed_classes |-> missed,
             makeup_classes |-> makeup,
             late_percentage |->
                 fill_percentage(RoundTo(Times100(NpDiv(late, total)), 2)),
             makeup_percentage |->
                 fill_percentage(RoundTo(Times100(NpDiv(makeup, missed)), 2))]]

\* report.py:135-200 (columns_description is constant text)
teacher_usage_analysis(past, missed, roster) ==
    LET teacher_metrics ==
            StableSortDesc(
                with_percentages(merge_metrics(roster, past_classes_metrics(past),
                                               missed_classes_metrics(missed))),
                "total_classes")
    IN  [total_summary |->
            [total_teachers |-> Len(teacher_metrics),
             total_classes |-> ColumnSum(teacher_metrics, "total_classes"),
             total_late_classes |-> ColumnSum(teacher_metrics, "late_classes"),
             total_missed_classes |-> ColumnSum(teacher_metrics, "missed_classes"),
             total_makeup_classes |-> ColumnSum(teacher_metrics, "makeup_classes")],
         all_teachers_metrics |-> teacher_metrics]

---------------------------------------------------------------------------
(* The aggregate document.                                                 *)

NoReport == [none |-> TRUE]
NoDir == {"(absent)"}

\* report.py:31-40
comprehensive_report(past, missed, roster) ==
    [past_classes |-> past_classes_analysis(past),
     missed_classes |-> missed_classes_analysis(missed, roster),
     teacher_usage |-> teacher_usage_analysis(past, missed, roster)]

\* report.py:214 and 224: the two keys _create_visualizations reads that no
\* analysis of report.py writes
visualization_keys_present(rep) ==
    /\ "usage_breakdown" \in DOMAIN rep.teacher_usage
    /\ "top_courses" \in DOMAIN rep.past_classes

---------------------------------------------------------------------------
(* generate_comprehensive_report (report.py:20-50), one action per step.   *)

\* report.py:28
Makedirs ==
    /\ pc = "start"
    /\ reports_dir' = IF reports_dir = NoDir THEN {} ELSE reports_dir
    /\ pc' = "dir_made"
    /\ UNCHANGED <<past_classes, missed_classes, teachers, report, variant,
                   rpc, graphs, ran, printed, tables>>

\* report.py:31-40
Analyse ==
    /\ pc = "dir_made"
    /\ report' = comprehensive_report(past_classes, missed_classes, teachers)
    /\ pc' = "analysed"
    /\ UNCHANGED <<past_classes, missed_classes, teachers, reports_dir, variant,
                   rpc, graphs, ran, printed, tables>>

\* report.py:43-45
DumpJson ==
    /\ pc = "analysed"
    /\ reports_dir' = reports_dir \cup {"comprehensive_report.json"}
    /\ pc' = "json_written"
    /\ UNCHANGED <<past_classes, missed_classes, teachers, report, variant,
                   rpc, graphs, ran, printed, tables>>

\* A chart step whose KeyError is caught: the report is returned without
\* the chart.
CreateVisualizationsCaught ==
    /\ pc = "json_written"
    /\ reports_dir' = IF visualization_keys_present(report)
                      THEN reports_dir \cup {"usage_visualization.png"}
                      ELSE reports_dir
    /\ pc' = "returned"
    /\ UNCHANGED <<past_classes, missed_classes, teachers, report, variant,
                   rpc, graphs, ran, printed, tables>>

\* report.py:48-50 with 202-253: the chart is saved and the report returned
\* only if every key the chart code reads is in the report; a missing key
\* is a KeyError that nothing catches.
CreateVisualizations ==
    /\ pc = "json_written"
    /\ IF visualization_keys_present(report)
       THEN /\ reports_dir' = reports_dir \cup {"usage_visualization.png"}
            /\ pc' = "returned"
       ELSE /\ reports_dir' = reports_dir
            /\ pc' = "raised"
    /\ UNCHANGED <<past_classes, missed_classes, teachers, report, variant,
                   rpc, graphs, ran, printed, tables>>

---------------------------------------------------------------------------
(* The document the renderer loads (graph.py:22-24).                       *)

\* The renderer reads all_courses[..]['class_type'] and
\* past_classes['average_durations'], which report.py does not write: they
\* come from the aggregator variant that splits courses into theory and lab
\* classes by a duration threshold.  That variant's document is the
\* report.py document with the two additions.
with_class_kind(rep) ==
    LET kind(r) == IF RatLess(Num(100), r.avg_duration) THEN "lab" ELSE "theory"
        courses == [i \in 1..Len(rep.past_classes.all_courses) |->
                      LET r == rep.past_classes.all_courses[i]
                      IN  [course_code |-> r.course_code,
                           class_count |-> r.class_count,
                           avg_duration |-> r.avg_duration,
                           class_type |-> kind(r)]]
        kinds == {courses[i].class_type : i \in 1..Len(courses)}
        mean(k) == LET of_kind == SelectRows(courses, "class_type", k)
                   IN  NpDiv(SumSeq([i \in 1..Len(of_kind) |-> Hundredths(of_kind[i].avg_duration)]),
                             Len(of_kind) * Pow10(2))
    IN  [past_classes |->
            [total_classes |-> rep.past_classes.total_classes,
             late_classes |-> rep.past_classes.late_classes,
             on_time_classes |-> rep.past_classes.on_time_classes,
             late_percentage |-> rep.past_classes.late_percentage,
             entry_type_distribution |-> rep.past_classes.entry_type_distribution,
             all_courses |-> courses,
             average_durations |-> [k \in kinds |-> mean(k)]],
         missed_classes |-> rep.missed_classes,
         teacher_usage |-> rep.teacher_usage]

Variants == {"report.py", "class_kind"}

\* json.dump then json.load of the report: the keys, lists and numbers the
\* renderer reads come back as they were written.
data == IF variant = "class_kind" THEN with_class_kind(report) ELSE report

---------------------------------------------------------------------------
(* The instructor table (graph.py:121-150 and 355-379).                    *)

\* the "<x>:.0f" cell of a whole-valued count
Fmt0(n) == RoundTo(Num(n), 0).num

\* graph.py:137-145 and 360-368
table_row(i, r) ==
    [idx |-> i,
     name |-> r.first_name,
     total_classes |-> Fmt0(r.total_classes),
     late_classes |-> Fmt0(r.late_classes),
     missed_classes |-> Fmt0(r.missed_classes),
     late_pct |-> RoundTo(r.late_percentage, 1)]

\* A totals row whose late percentage is the mean of the rows' percentages.
total_row_mean(df) ==
    [total_classes |-> Fmt0(ColumnSum(df, "total_classes")),
     late_classes |-> Fmt0(ColumnSum(df, "late_classes")),
     missed_classes |-> Fmt0(ColumnSum(df, "missed_classes")),
     late_pct |-> RoundTo(NpDiv(SumSeq([i \in 1..Len(df) |->
                                          Hundredths(df[i].late_percentage)]),
                                Len(df) * Pow10(2)), 1)]

\* graph.py:146-150 and, the same code again, 375-379
total_row(df) ==
    [total_classes |-> Fmt0(ColumnSum(df, "total_classes")),
     late_classes |-> Fmt0(ColumnSum(df, "late_classes")),
     missed_classes |-> Fmt0(ColumnSum(df, "missed_classes")),
     late_pct |-> RoundTo(Times100(NpDiv(ColumnSum(df, "late_classes"),
                                         ColumnSum(df, "total_classes"))), 1)]

\* graph.py:122-150 / 355-379: the rows by descending total_classes, then
\* the TOTAL row
teacher_table(doc) ==
    LET teachers_df == StableSortDesc(doc.teacher_usage.all_teachers_metrics,
                                      "total_classes")
    IN  [built |-> TRUE,
         rows |-> [i \in 1..Len(teachers_df) |-> table_row(i, teachers_df[i])],
         total |-> total_row(teachers_df)]

NoTable == [built |-> FALSE, rows |-> <<>>,
            total |-> [total_classes |-> 0, late_classes |-> 0,
                       missed_classes |-> 0, late_pct |-> NaN]]

---------------------------------------------------------------------------
(* The renderer's steps (graph.py:36-397): what each writes and when it    *)
(* raises.                                                                 *)

StepNames == <<"plot_class_distribution", "plot_top_courses",
               "plot_course_durations", "plot_ontime_vs_late",
               "plot_top_teachers", "plot_most_missed_classes",
               "generate_teacher_table", "generate_final_report">>

\* the file each step saves (graph.py:48, 60, 85, 96, 108, 119, 153, 181)
StepFile == <<"class_distribution.png", "top_10_courses.png",
              "course_durations.png", "ontime_vs_late.png",
              "top_teachers.png", "most_missed_classes.png",
              "teacher_metrics.pdf", "final_report.pdf">>

NumSteps == Len(StepNames)

\* graph.py:315-349: the images generate_final_report embeds
EmbeddedImages == {"class_distribution.png", "ontime_vs_late.png",
                   "daily_classes_trend.png", "top_10_courses.png",
                   "course_durations.png", "top_teachers.png",
                   "most_missed_classes.png"}

\* graph.py:39-41, 282-284: the three keys read from entry_type_distribution
EntryKeysPresent(doc) ==
    {"on_time", "late", "EXTRA_CLASS"} \subseteq DOMAIN doc.past_classes.entry_type_distribution

\* graph.py:66-67: every course record has a class_type (an empty list of
\* records is a frame without that column)
ClassTypePresent(doc) ==
    /\ doc.past_classes.all_courses # <<>>
    /\ \A i \in 1..Len(doc.past_classes.all_courses) :
          "class_type" \in DOMAIN doc.past_classes.all_courses[i]

\* graph.py:260-308: the keys and list heads the executive summary reads
SummaryReadable(doc) ==
    /\ EntryKeysPresent(doc)
    /\ doc.past_classes.all_courses # <<>>
    /\ "average_durations" \in DOMAIN doc.past_classes
    /\ doc.teacher_usage.all_teachers_metrics # <<>>

\* graph.py:305: the slice [:10] of the 'Top 10 teachers conducted' figure
SummaryTop == 10

\* graph.py:286: the record the summary names as the most active course
most_active_course(doc) == doc.past_classes.all_courses[1]

\* graph.py:298: the record the summary names as the top performing teacher
top_performing_teacher(doc) == doc.teacher_usage.all_teachers_metrics[1]

\* graph.py:305: sum(t['total_classes'] for t in all_teachers_metrics[:10])
top_10_conducted(doc) ==
    ColumnSum(Take(doc.teacher_usage.all_teachers_metrics, SummaryTop),
              "total_classes")

\* graph.py:313-351, 396: every embedded image must be in OUTPUT_DIR when
\* the document is built
ImagesPresent(disk) == EmbeddedImages \subseteq disk

\* The rows a step leaves built: generate_teacher_table builds its table
\* before it writes; generate_final_report builds its table after the
\* summary and before the document is laid out.
StepTables(k, doc, tbl) ==
    CASE k = 7 /\ doc.teacher_usage.all_teachers_metrics # <<>> ->
             [tbl EXCEPT !.teacher = teacher_table(doc)]
      [] k = 8 /\ SummaryReadable(doc) ->
             [tbl EXCEPT !.final = teacher_table(doc)]
      [] OTHER -> tbl

\* graph.py:178, 397: what a step prints when it has written its file
StepPrints(k) ==
    CASE k = 7 -> <<"Teacher metrics PDF generated">>
      [] k = 8 -> <<"Final report generated">>
      [] OTHER -> <<>>


NextStep(k) == IF k = NumSteps THEN "print_success" ELSE StepNames[k + 1]

\* An error handler that goes on with the step after the one that raised.
AfterRaiseContinue(k) == NextStep(k)

\* graph.py:411-412: the except clause prints and generate_all_plots returns
AfterRaise(k) == "done"

\* An error handler that removes what the run has written.
KeptRollback(disk, k) == disk \ {StepFile[j] : j \in 1..k}

\* graph.py:411-412: the except clause touches no file
KeptAfterRaise(disk, k) == disk

---------------------------------------------------------------------------
(* graph.py as actions.                                                    *)

Inputs == <<past_classes, missed_classes, teachers>>
Aggregator == <<pc, report, reports_dir>>

\* graph.py:19-24, run when the module is loaded: OUTPUT_DIR is created if
\* absent (it may hold files of an earlier run or of another tool) and the
\* document is read, whichever variant of the aggregator wrote it last.
LoadDocument ==
    /\ rpc = "idle"
    /\ pc \in {"raised", "returned"}
    /\ "comprehensive_report.json" \in reports_dir
    /\ \E v \in Variants, found \in {{}, {"daily_classes_trend.png"}} :
          /\ variant' = v
          /\ graphs' = found
    /\ rpc' = "loaded"
    /\ UNCHANGED <<Inputs, Aggregator, ran, printed, tables>>

\* graph.py:399-401
SetupPlotStyle ==
    /\ rpc = "loaded"
    /\ rpc' = StepNames[1]
    /\ UNCHANGED <<Inputs, Aggregator, variant, graphs, ran, printed, tables>>

\* One step of the try block (graph.py:402-409) and, if it raises, the
\* except clause (411-412).
RunStep(k, raises) ==
    /\ rpc = StepNames[k]
    /\ ran' = Append(ran, StepNames[k])
    /\ tables' = StepTables(k, data, tables)
    /\ IF raises
       THEN /\ graphs' = KeptAfterRaise(graphs, k)
            /\ printed' = Append(printed, "Error generating outputs")
            /\ rpc' = AfterRaise(k)
       ELSE /\ graphs' = graphs \cup {StepFile[k]}
            /\ printed' = printed \o StepPrints(k)
            /\ rpc' = NextStep(k)
    /\ UNCHANGED <<Inputs, Aggregator, variant>>

\* graph.py:36-48
plot_class_distribution == RunStep(1, ~EntryKeysPresent(data))

\* graph.py:50-60: nlargest on a frame made from an empty list is a KeyError
plot_top_courses == RunStep(2, data.past_classes.all_courses = <<>>)

\* graph.py:62-85
plot_course_durations == RunStep(3, ~ClassTypePresent(data))

\* graph.py:87-96
plot_ontime_vs_late == RunStep(4, FALSE)

\* graph.py:98-108
plot_top_teachers ==
    RunStep(5, data.teacher_usage.all_teachers_metrics = <<>>)

\* graph.py:110-119: barplot cannot find 'first_name' in an empty frame
plot_most_missed_classes ==
    RunStep(6, data.missed_classes.teachers_with_most_missed = <<>>)

\* graph.py:121-178
generate_teacher_table ==
    RunStep(7, data.teacher_usage.all_teachers_metrics = <<>>)

\* graph.py:180-397
generate_final_report ==
    RunStep(8, ~SummaryReadable(data) \/ ~ImagesPresent(graphs))

\* graph.py:410
PrintSuccess ==
    /\ rpc = "print_success"
    /\ printed' = Append(printed, "All outputs generated successfully")
    /\ rpc' = "done"
    /\ UNCHANGED <<Inputs, Aggregator, variant, graphs, ran, tables>>

---------------------------------------------------------------------------
(* The inputs and the specification.                                       *)

SessionRows == [course_code : Courses, employee_id : EmployeeIds,
                entry_type : EntryTypes, duration : Durations]
MissedRows == [employee_id : EmployeeIds, course_code : Courses,
               makeup_done : BOOLEAN]

Start ==
    /\ pc = "start"
    /\ report = NoReport
    /\ reports_dir = NoDir
    /\ variant = "none"
    /\ rpc = "idle"
    /\ graphs = {}
    /\ ran = <<>>
    /\ printed = <<>>
    /\ tables = [teacher |-> NoTable, final |-> NoTable]

\* Every roster of up to MaxTeachers rows, with every session table and
\* missed-session table of up to MaxRows rows together.
InitSmall ==
    /\ teachers \in SeqsUpTo(EmployeeIds, MaxTeachers)
    /\ past_classes \in SeqsUpTo(SessionRows, MaxRows)
    /\ missed_classes \in SeqsUpTo(MissedRows, MaxRows - Len(past_classes))
    /\ Start

\* The three-row session tables with entry types on_time, late, on_time,
\* and no missed session.
InitThreeRows ==
    /\ teachers \in SeqsUpTo(EmployeeIds, MaxTeachers)
    /\ past_classes \in {t \in [1..3 -> SessionRows] :
                            /\ t[1].entry_type = "on_time"
                            /\ t[2].entry_type = "late"
                            /\ t[3].entry_type = "on_time"}
    /\ missed_classes = <<>>
    /\ Start

\* Inputs the renderer can take to its last step: one session of each entry
\* type, one missed session, a roster that is not empty.
InitComplete ==
    /\ teachers \in SeqsUpTo(EmployeeIds, MaxTeachers) \ {<<>>}
    /\ past_classes \in {t \in [1..3 -> SessionRows] :
                            /\ t[1].entry_type = "on_time"
                            /\ t[2].entry_type = "late"
                            /\ t[3].entry_type = "EXTRA_CLASS"}
    /\ missed_classes \in [1..1 -> MissedRows]
    /\ Start

\* A roster of WideTeachers instructors with distinct identifiers, any set
\* of whom missed one session each; no sessions.
InitWide ==
    /\ teachers = [i \in 1..WideTeachers |-> 100 + i]
    /\ past_classes = <<>>
    /\ \E S \in SUBSET (1..WideTeachers) :
          missed_classes =
              [k \in 1..Cardinality(S) |->
                  [employee_id |-> 100 + IdsAscending(S)[k],
                   course_code |-> CourseCodes[1],
                   makeup_done |-> FALSE]]
    /\ Start

\* One instructor who held no session and missed up to MaxMissed sessions.
InitOneInstructor ==
    /\ teachers \in [1..1 -> EmployeeIds]
    /\ past_classes = <<>>
    /\ missed_classes \in SeqsUpTo([employee_id : {teachers[1]}, course_code : Courses,
                                     makeup_done : BOOLEAN], MaxMissed)
    /\ Start

\* A roster of WideTeachers instructors with distinct identifiers who held
\* one session each, but for two of them: one held none, one or two
\* sessions, another one or two.  No missed session.
InitBusyRoster ==
    /\ teachers = [i \in 1..WideTeachers |-> 100 + i]
    /\ \E a, b \in 1..WideTeachers, x \in 0..2, y \in 1..2 :
          LET held == [i \in 1..WideTeachers |->
                          IF i = a THEN x ELSE IF i = b THEN y ELSE 1]
          IN  past_classes =
                  FlattenSeq([i \in 1..WideTeachers |->
                      [k \in 1..held[i] |->
                          [course_code |-> CourseCodes[1],
                           employee_id |-> 100 + i,
                           entry_type |-> "on_time",
                           duration |-> 60]]])
    /\ missed_classes = <<>>
    /\ Start

\* One roster instructor; two sessions and two missed sessions, each of
\* that instructor or of one who is not in the roster.
InitOffRoster ==
    /\ teachers \in [1..1 -> EmployeeIds]
    /\ past_classes \in [1..2 -> [course_code : {CourseCodes[1]},
                                  employee_id : EmployeeIds,
                                  entry_type : {"on_time"},
                                  duration : Durations]]
    /\ missed_classes \in [1..2 -> [employee_id : EmployeeIds,
                                    course_code : {CourseCodes[1]},
                                    makeup_done : BOOLEAN]]
    /\ Start

Init ==
    \/ InitSmall
    \/ InitThreeRows
    \/ InitComplete
    \/ InitWide
    \/ InitOneInstructor
    \/ InitBusyRoster
    \/ InitOffRoster

Next ==
    \/ Makedirs
    \/ Analyse
    \/ DumpJson
    \/ CreateVisualizations
    \/ LoadDocument
    \/ SetupPlotStyle
    \/ plot_class_distribution
    \/ plot_top_courses
    \/ plot_course_durations
    \/ plot_ontime_vs_late
    \/ plot_top_teachers
    \/ plot_most_missed_classes
    \/ generate_teacher_table
    \/ generate_final_report
    \/ PrintSuccess

Spec == Init /\ [][Next]_vars

\* generate_comprehensive_report alone (report.py:20-50): the program whose
\* result the claims about the aggregate document are about
AggregatorNext ==
    \/ Makedirs
    \/ Analyse
    \/ DumpJson
    \/ CreateVisualizations

AggregatorSpec == Init /\ [][AggregatorNext]_vars

---------------------------------------------------------------------------
(* Properties.                                                             *)

\* the three analyses have run
Analysed == pc \in {"analysed", "json_written", "raised", "returned"}

\* the rows of the input tables that are sessions / missed sessions of
\* employee_id e
SessionsOf(e) == {i \in 1..Len(past_classes) : past_classes[i].employee_id = e}
MissedOf(e) == {i \in 1..Len(missed_classes) : missed_classes[i].employee_id = e}
MadeUpOf(e) == {i \in MissedOf(e) : missed_classes[i].makeup_done}

MetricsRows == report.teacher_usage.all_teachers_metrics

\* C1: all_teachers_metrics has exactly one row for each row of the roster
\* (and total_teachers is the number of roster rows), also for instructors
\* with no session and no missed session, whose counts are then 0.
C1_EveryRosterInstructorOnce ==
    Analysed =>
        /\ Len(MetricsRows) = Len(teachers)
        /\ report.teacher_usage.total_summary.total_teachers = Len(teachers)
        /\ \A i \in 1..Len(teachers) :
              /\ Cardinality({k \in 1..Len(MetricsRows) :
                                 MetricsRows[k].first_name = i}) = 1
              /\ \A k \in 1..Len(MetricsRows) :
                    MetricsRows[k].first_name = i =>
                        /\ MetricsRows[k].employee_id = teachers[i]
                        /\ (SessionsOf(teachers[i]) = {} /\ MissedOf(teachers[i]) = {}) =>
                               /\ MetricsRows[k].total_classes = 0
                               /\ MetricsRows[k].late_classes = 0
                               /\ MetricsRows[k].missed_classes = 0
                               /\ MetricsRows[k].makeup_classes = 0

\* C1 witness: a roster with an idle instructor beside an active one
C1_Witness ==
    /\ Analysed
    /\ \E i, j \in 1..Len(teachers) :
          /\ SessionsOf(teachers[i]) = {} /\ MissedOf(teachers[i]) = {}
          /\ SessionsOf(teachers[j]) # {}


ValidMissed == {i \in 1..Len(missed_classes) :
                   missed_classes[i].employee_id \in Range(teachers)}
ValidMadeUp == {i \in ValidMissed : missed_classes[i].makeup_done}

MostMissed == report.missed_classes.teachers_with_most_missed

\* C2 as stated: with no session at all, every late percentage and every
\* makeup percentage reported (overall and per instructor) is 0.
C2_AllPercentagesZero ==
    (Analysed /\ Len(past_classes) = 0) =>
        /\ report.past_classes.late_percentage = Num(0)
        /\ report.missed_classes.makeup_percentage = Num(0)
        /\ \A k \in 1..Len(MetricsRows) :
              /\ MetricsRows[k].late_percentage = Num(0)
              /\ MetricsRows[k].makeup_percentage = Num(0)

\* C2, amended: with no session at all the analyses raise nothing, every
\* late percentage is 0 and every makeup percentage is a finite number: 0
\* for an instructor without missed sessions (and overall when no valid
\* missed session exists), made-up/missed*100 otherwise.
C2_ZeroSessionsNoNaN ==
    (Analysed /\ Len(past_classes) = 0) =>
        /\ report.past_classes.late_percentage = Num(0)
        /\ IsNum(report.missed_classes.makeup_percentage)
        /\ ValidMissed = {} => report.missed_classes.makeup_percentage = Num(0)
        /\ \A k \in 1..Len(MostMissed) : IsNum(MostMissed[k].makeup_percentage)
        /\ \A k \in 1..Len(MetricsRows) :
              LET e == MetricsRows[k].employee_id
              IN  /\ MetricsRows[k].late_percentage = Num(0)
                  /\ IsNum(MetricsRows[k].makeup_percentage)
                  /\ MissedOf(e) = {} => MetricsRows[k].makeup_percentage = Num(0)
                  /\ MissedOf(e) # {} =>
                        MetricsRows[k].makeup_percentage =
                            RoundTo(Rat(100 * Cardinality(MadeUpOf(e)),
                                        Cardinality(MissedOf(e))), 2)

\* C2 witness: no session, and a roster with an instructor who missed and
\* made up a session beside one who missed none
C2_Witness ==
    /\ Analysed
    /\ Len(past_classes) = 0
    /\ \E i, j \in 1..Len(teachers) :
          /\ MadeUpOf(teachers[i]) # {}
          /\ MissedOf(teachers[j]) = {}

\* the rows of a built table add up to its TOTAL row, and the TOTAL row's
\* late percentage is late/total*100 of the summed columns, as printed with
\* one decimal
TotalsAddUp(t) ==
    LET total == SumSeq([i \in 1..Len(t.rows) |-> t.rows[i].total_classes])
        late == SumSeq([i \in 1..Len(t.rows) |-> t.rows[i].late_classes])
    IN  /\ t.total.total_classes = total
        /\ t.total.late_classes = late
        /\ t.total.missed_classes =
               SumSeq([i \in 1..Len(t.rows) |-> t.rows[i].missed_classes])
        /\ total > 0 => t.total.late_pct = RoundTo(Rat(100 * late, total), 1)

\* the mean of the rows' printed late percentages, with one decimal
MeanOfRows(t) ==
    RoundTo(NpDiv(SumSeq([i \in 1..Len(t.rows) |-> Hundredths(t.rows[i].late_pct)]),
                  Len(t.rows) * Pow10(2)), 1)

\* C3: in the instructor table of generate_teacher_table and of
\* generate_final_report the TOTAL row's count cells are the sums of the
\* instructor rows' cells and its late percentage is (sum of late)/(sum of
\* total)*100.
C3_TotalsRow ==
    /\ tables.teacher.built => TotalsAddUp(tables.teacher)
    /\ tables.final.built => TotalsAddUp(tables.final)

\* C3 witness: both tables built, with a TOTAL late percentage that is not
\* the mean of the rows' late percentages
C3_Witness ==
    /\ tables.teacher.built
    /\ tables.final.built
    /\ tables.teacher.total.total_classes > 0
    /\ tables.teacher.total.late_pct # MeanOfRows(tables.teacher)
    /\ tables.final.total.late_pct # MeanOfRows(tables.final)

AllCourses == report.past_classes.all_courses

\* the row of the session table where course c first occurs
FirstOccurrence(c) ==
    CHOOSE i \in 1..Len(past_classes) :
        /\ past_classes[i].course_code = c
        /\ \A j \in 1..(i - 1) : past_classes[j].course_code # c

\* C4 as stated: all_courses is in descending class_count order and courses
\* with equal class_count are in the order of their first occurrence in the
\* session table.
C4_TiesInInputOrder ==
    Analysed =>
        \A i, j \in 1..Len(AllCourses) :
            i < j =>
                \/ AllCourses[i].class_count > AllCourses[j].class_count
                \/ /\ AllCourses[i].class_count = AllCourses[j].class_count
                   /\ FirstOccurrence(AllCourses[i].course_code)
                          < FirstOccurrence(AllCourses[j].course_code)

\* C4, amended: all_courses holds each course of the session table once,
\* with its number of sessions, and no entry has a larger class_count than
\* an entry before it.
C4_DescendingByCount ==
    Analysed =>
        /\ \A i, j \in 1..Len(AllCourses) :
              i < j => AllCourses[i].class_count >= AllCourses[j].class_count
        /\ \A c \in Courses :
              LET n == Cardinality({i \in 1..Len(past_classes) :
                                        past_classes[i].course_code = c})
                  at == {i \in 1..Len(AllCourses) : AllCourses[i].course_code = c}
              IN  /\ Cardinality(at) = (IF n > 0 THEN 1 ELSE 0)
                  /\ \A i \in at : AllCourses[i].class_count = n

\* C4 witness: two courses with different counts, the larger one later in
\* the input
C4_Witness ==
    /\ Analysed
    /\ Len(AllCourses) = 2
    /\ AllCourses[1].class_count > AllCourses[2].class_count
    /\ FirstOccurrence(AllCourses[2].course_code)
           < FirstOccurrence(AllCourses[1].course_code)


ErrorPrinted == "Error generating outputs" \in Range(printed)
SuccessPrinted == "All outputs generated successfully" \in Range(printed)

\* C5: the eight output steps of generate_all_plots run in a fixed order;
\* once a step has raised, the error message is printed, the success
\* message is not, the call has returned, the files of the earlier steps
\* are still in the output directory, and nothing runs or changes after.
C5_AbortKeepsFiles ==
    /\ [](/\ Len(ran) <= NumSteps
          /\ \A i \in 1..Len(ran) : ran[i] = StepNames[i]
          /\ SuccessPrinted => (Len(ran) = NumSteps /\ ~ErrorPrinted)
          /\ ErrorPrinted =>
                /\ rpc = "done"
                /\ ~SuccessPrinted
                /\ Cardinality({i \in 1..Len(printed) :
                                   printed[i] = "Error generating outputs"}) = 1
                /\ \A j \in 1..(Len(ran) - 1) : StepFile[j] \in graphs)
    /\ [][ErrorPrinted => UNCHANGED <<ran, graphs, printed, tables>>]_vars

\* C5 witness: the sixth step raised after five files were written
C5_Witness ==
    /\ ErrorPrinted
    /\ Len(ran) = 6
    /\ {StepFile[j] : j \in 1..5} \subseteq graphs
    /\ StepFile[6] \notin graphs

AggregatorEnded == pc \in {"raised", "returned"}

\* C6: a run of generate_comprehensive_report on non-empty inputs creates
\* the output directory, writes comprehensive_report.json and
\* usage_visualization.png and returns the report.
C6_BothFilesWritten ==
    (/\ AggregatorEnded
     /\ past_classes # <<>>
     /\ missed_classes # <<>>
     /\ teachers # <<>>) =>
        /\ pc = "returned"
        /\ reports_dir # NoDir
        /\ {"comprehensive_report.json", "usage_visualization.png"} \subseteq reports_dir

\* C7: a document written by the aggregator from inputs with on-time, late
\* and extra sessions holds every key and field the renderer reads, so
\* generate_all_plots writes its six charts and two documents and no step
\* fails.
C7_DocumentSuffices ==
    (/\ variant = "report.py"
     /\ rpc = "done"
     /\ EntryTypes \subseteq {past_classes[i].entry_type : i \in 1..Len(past_classes)}
     /\ ValidMissed # {}) =>
        /\ ~ErrorPrinted
        /\ {StepFile[j] : j \in 1..NumSteps} \subseteq graphs

RosterRowsWithMissed == {i \in 1..Len(teachers) : MissedOf(teachers[i]) # {}}

\* what C8 says of every part but the completeness of
\* teachers_with_most_missed: the totals and the per-course counts are over
\* the roster instructors' records, all of them, and each listed instructor
\* is a roster row with all of that instructor's records
MissedOverRoster ==
    LET m == report.missed_classes
        listed == m.teachers_with_most_missed
        with_missed == RosterRowsWithMissed
    IN  /\ m.total_missed_classes = Cardinality(ValidMissed)
        /\ m.makeup_classes = Cardinality(ValidMadeUp)
        /\ DOMAIN m.missed_classes_by_course =
               {missed_classes[i].course_code : i \in ValidMissed}
        /\ \A c \in DOMAIN m.missed_classes_by_course :
              m.missed_classes_by_course[c] =
                  Cardinality({i \in ValidMissed : missed_classes[i].course_code = c})
        /\ \A k \in 1..Len(listed) :
              /\ listed[k].first_name \in with_missed
              /\ listed[k].missed_count =
                     Cardinality(MissedOf(teachers[listed[k].first_name]))
              /\ listed[k].makeup_done =
                     Cardinality(MadeUpOf(teachers[listed[k].first_name]))
              /\ \A l \in 1..Len(listed) :
                    listed[l].first_name = listed[k].first_name => l = k

\* C8 as stated: total_missed_classes, makeup_classes,
\* missed_classes_by_course and teachers_with_most_missed count no record of
\* an instructor absent from the roster and every record of an instructor
\* on it.
C8_EveryRosterRecordCounted ==
    Analysed =>
        /\ MissedOverRoster
        /\ \A i \in RosterRowsWithMissed :
              \E k \in 1..Len(MostMissed) : MostMissed[k].first_name = i

\* C8, amended: total_missed_classes, makeup_classes and
\* missed_classes_by_course count exactly the records of roster
\* instructors; teachers_with_most_missed lists roster instructors only,
\* each with all of that instructor's records, but no more than the 10 with
\* the most missed sessions.
C8_RosterRecordsTopTen ==
    Analysed =>
        /\ MissedOverRoster
        /\ LET listed == MostMissed
               with_missed == RosterRowsWithMissed
           IN  /\ Len(listed) = (IF Cardinality(with_missed) < TopN
                                 THEN Cardinality(with_missed) ELSE TopN)
               /\ \A i \in with_missed :
                     \/ \E k \in 1..Len(listed) : listed[k].first_name = i
                     \/ \A k \in 1..Len(listed) :
                           Cardinality(MissedOf(teachers[i])) <= listed[k].missed_count

\* C8 witness: missed sessions of an instructor on the roster and of one
\* absent from it
C8_Witness ==
    /\ Analysed
    /\ ValidMissed # {}
    /\ \E i \in 1..Len(missed_classes) : i \notin ValidMissed

EntryTypeSeq == [i \in 1..Len(past_classes) |-> past_classes[i].entry_type]

\* C9: entry_type_distribution maps each entry type that occurs to its
\* number of sessions, late_classes and on_time_classes are the counts of
\* 'late' and 'on_time' sessions, and late_percentage is
\* late_classes/total_classes*100; entry types [on_time, late, on_time] give
\* on_time = 2, late = 1 and late_percentage within 0.01 of 33.33.
C9_EntryTypeCounts ==
    Analysed =>
        LET p == report.past_classes
            n(t) == Cardinality({i \in 1..Len(past_classes) :
                                    past_classes[i].entry_type = t})
        IN  /\ DOMAIN p.entry_type_distribution = Range(EntryTypeSeq)
            /\ \A t \in DOMAIN p.entry_type_distribution :
                  p.entry_type_distribution[t] = n(t)
            /\ p.total_classes = Len(past_classes)
            /\ p.late_classes = n("late")
            /\ p.on_time_classes = n("on_time")
            /\ Len(past_classes) > 0 =>
                  p.late_percentage = Rat(100 * n("late"), Len(past_classes))
            /\ EntryTypeSeq = <<"on_time", "late", "on_time">> =>
                  /\ p.entry_type_distribution["on_time"] = 2
                  /\ p.entry_type_distribution["late"] = 1
                  /\ IsNum(p.late_percentage)
                  /\ 3332 * p.late_percentage.den <= 100 * p.late_percentage.num
                  /\ 100 * p.late_percentage.num <= 3334 * p.late_percentage.den

\* C9 witness: the three-row table of the example
C9_Witness ==
    /\ Analysed
    /\ EntryTypeSeq = <<"on_time", "late", "on_time">>

\* the example of C10: one instructor, no session, two missed sessions of
\* which one was made up
OneInstructorExample ==
    /\ Len(teachers) = 1
    /\ past_classes = <<>>
    /\ Cardinality(MissedOf(teachers[1])) = 2
    /\ Cardinality(MadeUpOf(teachers[1])) = 1
    /\ Len(missed_classes) = 2

\* the metrics row of roster row i
MetricsRowOf(i) ==
    MetricsRows[CHOOSE k \in 1..Len(MetricsRows) : MetricsRows[k].first_name = i]

\* the overall makeup percentage and the example are as C10 says
MakeupOverall ==
    /\ ValidMissed # {} =>
          report.missed_classes.makeup_percentage =
              Rat(100 * Cardinality(ValidMadeUp), Cardinality(ValidMissed))
    /\ OneInstructorExample =>
          /\ MetricsRowOf(1).makeup_percentage = Num(50)
          /\ report.missed_classes.makeup_percentage = Num(50)

\* C10 as stated: a roster instructor with m > 0 missed sessions, k of them
\* made up, has makeup_percentage k/m*100, whatever the number of sessions
\* held; the example gives 50 in the instructor's metrics and overall.
C10_MakeupExact ==
    Analysed =>
        /\ MakeupOverall
        /\ \A i \in RosterRowsWithMissed :
              MetricsRowOf(i).makeup_percentage =
                  Rat(100 * Cardinality(MadeUpOf(teachers[i])),
                      Cardinality(MissedOf(teachers[i])))

\* C10, amended: in the instructor's metrics makeup_percentage is k/m*100
\* rounded to two decimal places, whatever the number of sessions held; the
\* overall makeup_percentage is not rounded; the example gives 50 in both.
C10_MakeupRounded ==
    Analysed =>
        /\ MakeupOverall
        /\ \A i \in RosterRowsWithMissed :
              MetricsRowOf(i).makeup_percentage =
                  RoundTo(Rat(100 * Cardinality(MadeUpOf(teachers[i])),
                              Cardinality(MissedOf(teachers[i]))), 2)

\* C10 witness: the example, analysed
C10_Witness ==
    /\ Analysed
    /\ OneInstructorExample

\* the two instructor tables a renderer run builds
BuiltTables == {t \in {tables.teacher, tables.final} : t.built}

\* C11: when the total_classes of the instructor rows sum to 0, the TOTAL
\* row's late percentage built by generate_teacher_table and by
\* generate_final_report is 0, not NaN.
C11_TotalLatePctZero ==
    \A t \in BuiltTables :
        t.total.total_classes = 0 => t.total.late_pct = Num(0)


\* C12: every image generate_final_report embeds is written by an earlier
\* step of the run, so the images are in the output directory when the
\* final report step starts, and a run that reaches that step with a
\* readable summary writes final_report.pdf.
C12_ImagesDrawnBeforeDocument ==
    /\ rpc = "generate_final_report" => ImagesPresent(graphs)
    /\ (/\ rpc = "done"
        /\ Len(ran) = NumSteps
        /\ SummaryReadable(data)) => "final_report.pdf" \in graphs


\* the number of sessions each roster row's instructor held, in roster order
HeldByRoster == [i \in 1..Len(teachers) |-> Cardinality(SessionsOf(teachers[i]))]

\* the sum of the k largest numbers of cs: the smallest is dropped until k
\* are left
RECURSIVE SumOfLargest(_, _)
SumOfLargest(cs, k) ==
    IF Len(cs) <= k
    THEN SumSeq(cs)
    ELSE LET m == CHOOSE i \in 1..Len(cs) : \A j \in 1..Len(cs) : cs[i] <= cs[j]
         IN  SumOfLargest([j \in 1..(Len(cs) - 1) |->
                              IF j < m THEN cs[j] ELSE cs[j + 1]], k)

\* C13: for every document with at least one course and one instructor,
\* the course the summary reads at index 0 of all_courses has the largest
\* session count of all courses, the instructor it reads at index 0 of
\* all_teachers_metrics has the largest number of sessions of all roster
\* instructors, and the 'Top 10 teachers conducted' figure is the sum of the
\* 10 largest numbers of sessions of roster instructors.
C13_SummaryNamesLeaders ==
    (/\ Analysed
     /\ report.past_classes.all_courses # <<>>
     /\ report.teacher_usage.all_teachers_metrics # <<>>) =>
        LET course == most_active_course(data)
            teacher == top_performing_teacher(data)
            held == HeldByRoster
        IN  /\ \A c \in Courses :
                  Cardinality({i \in 1..Len(past_classes) :
                                  past_classes[i].course_code = c})
                      <= course.class_count
            /\ course.class_count =
                  Cardinality({i \in 1..Len(past_classes) :
                                  past_classes[i].course_code = course.course_code})
            /\ \A i \in 1..Len(teachers) : held[i] <= teacher.total_classes
            /\ teacher.total_classes = Cardinality(SessionsOf(teacher.employee_id))
            /\ top_10_conducted(data) = SumOfLargest(held, SummaryTop)

\* C13 witness: more than ten roster instructors, all with sessions; the
\* one with the most sessions is not the first of the roster, and the ten
\* largest session counts add up to less than all sessions of the roster
C13_Witness ==
    /\ Analysed
    /\ Len(teachers) > SummaryTop
    /\ \A i \in 1..Len(teachers) : HeldByRoster[i] > 0
    /\ HeldByRoster[1] < HeldByRoster[Len(teachers)]
    /\ top_10_conducted(data) < SumSeq(HeldByRoster)


\* the roster names no employee_id twice
RosterDistinct == Cardinality(Range(teachers)) = Len(teachers)

\* the sessions held by instructors of the roster
RosterSessions == {i \in 1..Len(past_classes) :
                      past_classes[i].employee_id \in Range(teachers)}

\* C14: in a document made from a roster of distinct employee_ids, the
\* missed and made-up totals of the missed-session analysis equal those of
\* the instructor summary, and the summary's total_classes is the number of
\* sessions held by roster instructors, at most past_classes.total_classes.
C14_SectionsAgree ==
    (Analysed /\ RosterDistinct) =>
        LET summary == report.teacher_usage.total_summary
        IN  /\ report.missed_classes.total_missed_classes = summary.total_missed_classes
            /\ report.missed_classes.makeup_classes = summary.total_makeup_classes
            /\ summary.total_missed_classes = Cardinality(ValidMissed)
            /\ summary.total_makeup_classes = Cardinality(ValidMadeUp)
            /\ summary.total_classes = Cardinality(RosterSessions)
            /\ summary.total_classes <= report.past_classes.total_classes

\* C14 witness: sessions and missed sessions both of roster instructors and
\* of others, one of the roster's missed sessions made up
C14_Witness ==
    /\ Analysed
    /\ RosterDistinct
    /\ ValidMadeUp # {}
    /\ Cardinality(ValidMissed) < Len(missed_classes)
    /\ RosterSessions # {}
    /\ Cardinality(RosterSessions) < Len(past_classes)


\* C15: generate_comprehensive_report computes the three analyses, then
\* writes comprehensive_report.json, and only then starts the chart; when
\* the chart code raises, the run ends with the exception and nothing is
\* returned, the written document stays as it is and
\* usage_visualization.png is not written.
C15_DocumentBeforeChart ==
    /\ []((/\ "comprehensive_report.json" \in reports_dir =>
                 /\ Analysed
                 /\ "none" \notin DOMAIN report
           /\ "usage_visualization.png" \in reports_dir =>
                 "comprehensive_report.json" \in reports_dir
           /\ pc = "raised" =>
                 /\ "comprehensive_report.json" \in reports_dir
                 /\ "usage_visualization.png" \notin reports_dir))
    /\ [][(pc' # pc /\ pc' \in {"raised", "returned"}) => pc = "json_written"]_vars
    /\ [][(/\ pc = "json_written"
           /\ pc' # pc
           /\ ~visualization_keys_present(report)) =>
              /\ pc' = "raised"
              /\ reports_dir' = reports_dir
              /\ report' = report]_vars
    /\ [][Analysed => report' = report]_vars
    /\ [][pc = "raised" => UNCHANGED <<pc, report, reports_dir>>]_vars

\* C15 witness: the chart code has raised and the renderer has gone on to
\* read the document that was written before
C15_Witness ==
    /\ pc = "raised"
    /\ reports_dir = {"comprehensive_report.json"}
    /\ rpc = "loaded"


====
